---- MODULE Spec2Model ----
(***************************************************************************)
(* reedos: the spinlock mutex (src/spinlock.rs) and the CLINT timer arming *)
(* routine (src/riscv.rs), with the memory layout of src/param.rs.         *)
(*                                                                         *)
(* The mutex is modelled over a view-based memory: the payload cell keeps  *)
(* the sequence of writes made to it, every hart has a view (the oldest    *)
(* write it may still read), and the lock word carries the view published  *)
(* by the store that wrote it.  An Acquire load joins the published view,  *)
(* a Release store publishes the storing hart's view.  All accesses to the *)
(* lock word are read-modify-writes or stores that follow the holder's own *)
(* read-modify-write, so the lock word itself is read at its latest value. *)
(***************************************************************************)
EXTENDS Integers, Sequences, FiniteSets, TLC

\* ------------------------------------------------------------------ bounds
NumHarts == 2          \* harts 0 .. NumHarts-1 take part
MaxLocks == 4          \* calls of lock() the finite harts make in one run
MaxFairLocks == 2      \* the same, in the runs under fair scheduling
MaxInitValue == 1      \* Mutex::new(v) is called with v in 0 .. MaxInitValue
MaxInterval == 2       \* write_clint intervals are 1 .. MaxInterval
MaxTime == 3           \* the free-running counter is observed up to here
MaxArms == 3           \* calls of write_clint in one run

\* ------------------------------------------------------- program constants
CLINT_BASE == 33554432         \* 0x2000000
MTIMECMP_OFFSET == 16384       \* 0x4000
MTIME_OFFSET == 49144          \* 0xBFF8
SLOT_BYTES == 8

Harts == 0 .. (NumHarts - 1)
NoHart == 0 - 1        \* "no hart": the constructor, or nobody

VARIABLES
    lock_state,   \* Mutex.lock_state: the AtomicU32, 0 unlocked / 1 locked
    lock_view,    \* the payload view published with the lock word's value
    inner,        \* Mutex.inner: the writes made to the UnsafeCell, in order
    view,         \* view[h]: index of the oldest write of inner h may read
    pc,           \* pc[h]: "idle", "lock", "held", "read", "wrote"
    guard,        \* guard[h]: h owns a live MutexGuard
    endless,      \* endless[h]: h's workload is `loop { lock; use; drop }`
    locks,        \* calls of lock() made so far by the harts that are not endless
    local,        \* local[h]: the value h read through its guard
    spun,         \* spun[h]: the current lock() call has seen a swap return 1
    owner,        \* the hart whose swap last changed lock_state from 0 to 1
    last_exit,    \* the last end of a guard's scope: which hart, which way
    incs,         \* incs[h]: writes h made through deref_mut
    mem,          \* the CLINT's memory-mapped registers, address -> value
    mmio_log,     \* the volatile writes performed, in order
    last_call,    \* last_call[h]: h's last write_clint call
    calls,        \* number of write_clint calls made
    new_arg,      \* the value Mutex::new was called with
    mie,          \* mie[h]: the machine interrupt-enable bit of h's mstatus
    nest,         \* nest[h]: what runs on top of h's program: "none", "call", "irq"
    npc           \* npc[h]: where that nested frame is: "off", "lock", "held"

mutex_vars == <<lock_state, lock_view, inner, view, pc, guard, endless, locks, local,
                spun, owner, last_exit, incs>>
clint_vars == <<mem, mmio_log, last_call, calls>>
nested_vars == <<new_arg, mie, nest, npc>>
vars == <<lock_state, lock_view, inner, view, pc, guard, endless, locks, local,
          spun, owner, last_exit, incs, mem, mmio_log, last_call, calls,
          new_arg, mie, nest, npc>>

Max(a, b) == IF a >= b THEN a ELSE b

RECURSIVE SumOver(_, _)
SumOver(f, S) ==
    IF S = {} THEN 0
    ELSE LET x == CHOOSE y \in S : TRUE IN f[x] + SumOver(f, S \ {x})

\* ================================================================ spinlock

\* Mutex::new(value)
new_locked(value) == [lock_state |-> 1, inner |-> <<[val |-> value, hart |-> NoHart]>>]
new(value) == [lock_state |-> 0, inner |-> <<[val |-> value, hart |-> NoHart]>>]

\* the orderings named at the two atomic operations
SwapOrderingRelaxed == "Relaxed"
SwapOrdering == "Acquire"

StoreOrderingRelaxed == "Relaxed"
StoreOrdering == "Release"

\* what a load with ordering ord does to the loading hart's view
load_view(ord, hview, msgview) ==
    IF ord \in {"Acquire", "AcqRel", "SeqCst"} THEN Max(hview, msgview) ELSE hview

\* the view a store with ordering ord publishes with the stored value
store_view(ord, hview) ==
    IF ord \in {"Release", "AcqRel", "SeqCst"} THEN hview ELSE 1

\* AtomicU32::swap(val): returns the old value, leaves val
swap_keep(cur, val) == [old |-> cur, new |-> cur]
swap_toggle(cur, val) == [old |-> cur, new |-> 1 - cur]
swap_add(cur, val) == [old |-> cur, new |-> cur + val]
swap(cur, val) == [old |-> cur, new |-> val]

\* the loop condition of lock(): `swap(1, Acquire) == 1`
spins_never(old) == FALSE
spins_always(old) == TRUE
spins(old) == old = 1

InCS == {"held", "read", "wrote"}
ExitKinds == {"normal", "early", "fail"}

\* entry of Mutex::lock by hart h
CallLock(h) ==
    /\ pc[h] = "idle"
    /\ nest[h] = "none"
    /\ endless[h] \/ locks < MaxLocks
    /\ pc' = [pc EXCEPT ![h] = "lock"]
    /\ locks' = IF endless[h] THEN locks ELSE locks + 1
    /\ spun' = [spun EXCEPT ![h] = FALSE]
    /\ UNCHANGED <<lock_state, lock_view, inner, view, guard, endless, local, owner,
                   last_exit, incs>>
    /\ UNCHANGED clint_vars
    /\ UNCHANGED nested_vars

\* one iteration of the loop of Mutex::lock, and the return of the guard
lock(h) ==
    /\ pc[h] = "lock"
    /\ nest[h] = "none"
    /\ LET r == swap(lock_state, 1) IN
         /\ lock_state' = r.new
         /\ view' = [view EXCEPT ![h] = load_view(SwapOrdering, @, lock_view)]
         /\ owner' = IF r.old = 0 /\ r.new = 1 THEN h ELSE owner
         /\ IF spins(r.old)
              THEN /\ spun' = [spun EXCEPT ![h] = TRUE]
                   /\ UNCHANGED <<pc, guard>>
              ELSE /\ pc' = [pc EXCEPT ![h] = "held"]
                   /\ guard' = [guard EXCEPT ![h] = TRUE]
                   /\ UNCHANGED spun
    /\ UNCHANGED <<lock_view, inner, endless, locks, local, last_exit, incs>>
    /\ UNCHANGED clint_vars
    /\ UNCHANGED nested_vars

\* MutexGuard::deref: a read of the payload through the guard
deref(h) ==
    /\ pc[h] = "held"
    /\ nest[h] = "none"
    /\ guard[h]
    /\ \E i \in view[h] .. Len(inner) :
          local' = [local EXCEPT ![h] = inner[i].val]
    /\ pc' = [pc EXCEPT ![h] = "read"]
    /\ UNCHANGED <<lock_state, lock_view, inner, view, guard, endless, locks, spun,
                   owner, last_exit, incs>>
    /\ UNCHANGED clint_vars
    /\ UNCHANGED nested_vars

\* MutexGuard::deref_mut: the write of payload + 1 through the guard
deref_mut(h) ==
    /\ pc[h] = "read"
    /\ nest[h] = "none"
    /\ guard[h]
    /\ ~endless[h]
    /\ inner' = Append(inner, [val |-> local[h] + 1, hart |-> h])
    /\ view' = [view EXCEPT ![h] = Len(inner) + 1]
    /\ incs' = [incs EXCEPT ![h] = @ + 1]
    /\ pc' = [pc EXCEPT ![h] = "wrote"]
    /\ UNCHANGED <<lock_state, lock_view, guard, endless, locks, local, spun, owner,
                   last_exit>>
    /\ UNCHANGED clint_vars
    /\ UNCHANGED nested_vars

\* MutexGuard::drop: store(0, Release)
drop_forget(h) == UNCHANGED <<lock_state, lock_view>>
drop(h) ==
    /\ lock_state' = 0
    /\ lock_view' = store_view(StoreOrdering, view[h])

\* the guard's scope ends: normally, by an early return, or on a failure path
ScopeEnd(h, kind) ==
    /\ pc[h] \in InCS
    /\ nest[h] = "none"
    /\ guard[h]
    /\ \/ kind = "normal" /\ (pc[h] = "wrote" \/ (pc[h] = "read" /\ endless[h]))
       \/ kind = "early" /\ pc[h] \in {"held", "read"}
       \/ kind = "fail"
    /\ drop(h)
    /\ guard' = [guard EXCEPT ![h] = FALSE]
    /\ pc' = [pc EXCEPT ![h] = "idle"]
    /\ last_exit' = [hart |-> h, kind |-> kind]
    /\ local' = [local EXCEPT ![h] = 0]
    /\ spun' = [spun EXCEPT ![h] = FALSE]
    /\ UNCHANGED <<inner, view, endless, locks, owner, incs>>
    /\ UNCHANGED clint_vars
    /\ UNCHANGED nested_vars

\* ------------------------------------------- lock() called while holding
\* The lock word has no owner and no count, and neither lock() nor drop
\* reads or writes mstatus: a hart can call lock() again from inside its
\* critical section, and an interrupt can be taken at any point where the
\* hart's interrupt-enable bit is set.

\* hart h calls Mutex::lock again while its guard is alive
ReLock(h) ==
    /\ pc[h] \in InCS
    /\ guard[h]
    /\ nest[h] = "none"
    /\ nest' = [nest EXCEPT ![h] = "call"]
    /\ npc' = [npc EXCEPT ![h] = "lock"]
    /\ UNCHANGED <<new_arg, mie>>
    /\ UNCHANGED mutex_vars
    /\ UNCHANGED clint_vars

\* hart h takes a machine interrupt (mstatus.MIE set; the trap clears it)
\* and its handler calls Mutex::lock
Interrupt(h) ==
    /\ mie[h]
    /\ nest[h] = "none"
    /\ mie' = [mie EXCEPT ![h] = FALSE]
    /\ nest' = [nest EXCEPT ![h] = "irq"]
    /\ npc' = [npc EXCEPT ![h] = "lock"]
    /\ UNCHANGED new_arg
    /\ UNCHANGED mutex_vars
    /\ UNCHANGED clint_vars

\* one iteration of the loop of Mutex::lock in the nested frame
NestedLock(h) ==
    /\ npc[h] \in {"lock", "spin"}
    /\ LET r == swap(lock_state, 1) IN
         /\ lock_state' = r.new
         /\ view' = [view EXCEPT ![h] = load_view(SwapOrdering, @, lock_view)]
         /\ owner' = IF r.old = 0 /\ r.new = 1 THEN h ELSE owner
         /\ npc' = [npc EXCEPT ![h] = IF spins(r.old) THEN "spin" ELSE "held"]
    /\ UNCHANGED <<lock_view, inner, pc, guard, endless, locks, local, spun,
                   last_exit, incs>>
    /\ UNCHANGED <<new_arg, mie, nest>>
    /\ UNCHANGED clint_vars

\* the nested frame drops its guard and returns (mret sets MIE again)
NestedReturn(h) ==
    /\ npc[h] = "held"
    /\ drop(h)
    /\ npc' = [npc EXCEPT ![h] = "off"]
    /\ nest' = [nest EXCEPT ![h] = "none"]
    /\ mie' = [mie EXCEPT ![h] = IF nest[h] = "irq" THEN TRUE ELSE @]
    /\ UNCHANGED <<inner, view, pc, guard, endless, locks, local, spun, owner,
                   last_exit, incs>>
    /\ UNCHANGED new_arg
    /\ UNCHANGED clint_vars

\* ============================================================ CLINT timer

\* the slot of a hart and the counter, as the memory layout gives them
CLINT_MTIMECMP(base, hartid) == base + MTIMECMP_OFFSET + SLOT_BYTES * hartid
CLINT_MTIME(base) == base + MTIME_OFFSET

MemAddrs ==
    {CLINT_MTIMECMP(CLINT_BASE, k) : k \in 0 .. NumHarts} \cup {CLINT_MTIME(CLINT_BASE)}

\* Addresses and values are u64 / usize; with the base of param.rs, the
\* hart ids and the intervals used here every sum stays far below 2^64, so
\* no arithmetic wraps.
\*
\* write_clint(hartid, base, interval): the address and the value of its
\* one volatile write.  `base` is shadowed by the target pointer before the
\* value is computed.
write_clint_slot0(hartid, base, interval) ==
    LET ptr == base + MTIMECMP_OFFSET
    IN  [addr |-> ptr, val |-> ptr + MTIME_OFFSET + interval]
write_clint(hartid, base, interval) ==
    LET ptr == base + MTIMECMP_OFFSET + SLOT_BYTES * hartid
    IN  [addr |-> ptr, val |-> ptr + MTIME_OFFSET + interval]

NoCall == [count |-> 0 - 1, interval |-> 0, val |-> 0]

WriteClint(h, interval) ==
    /\ calls < MaxArms
    /\ LET w == write_clint(h, CLINT_BASE, interval) IN
         /\ mem' = [a \in MemAddrs |-> IF a = w.addr THEN w.val ELSE mem[a]]
         /\ mmio_log' = Append(mmio_log, [hart |-> h, addr |-> w.addr, val |-> w.val])
         /\ last_call' = [last_call EXCEPT ![h] =
                [count |-> mem[CLINT_MTIME(CLINT_BASE)], interval |-> interval,
                 val |-> w.val]]
    /\ calls' = calls + 1
    /\ UNCHANGED mutex_vars
    /\ UNCHANGED nested_vars

\* the hardware advances the free-running counter
Tick ==
    /\ mem[CLINT_MTIME(CLINT_BASE)] < MaxTime
    /\ mem' = [mem EXCEPT ![CLINT_MTIME(CLINT_BASE)] = @ + 1]
    /\ UNCHANGED <<mmio_log, last_call, calls>>
    /\ UNCHANGED mutex_vars
    /\ UNCHANGED nested_vars

\* ========================================================= specifications

MutexInit(v, e, n) ==
    /\ lock_state = new(v).lock_state
    /\ inner = new(v).inner
    /\ lock_view = 1
    /\ view = [h \in Harts |-> 1]
    /\ pc = [h \in Harts |-> "idle"]
    /\ guard = [h \in Harts |-> FALSE]
    /\ endless = e
    /\ locks = n
    /\ local = [h \in Harts |-> 0]
    /\ spun = [h \in Harts |-> FALSE]
    /\ owner = NoHart
    /\ last_exit = [hart |-> NoHart, kind |-> "none"]
    /\ incs = [h \in Harts |-> 0]
    /\ new_arg = v
    /\ mie = [h \in Harts |-> TRUE]
    /\ nest = [h \in Harts |-> "none"]
    /\ npc = [h \in Harts |-> "off"]

ClintInit ==
    /\ mem = [a \in MemAddrs |-> 0]
    /\ mmio_log = <<>>
    /\ last_call = [h \in Harts |-> NoCall]
    /\ calls = 0

\* finite workloads on one mutex
Init ==
    /\ \E v \in 0 .. MaxInitValue : MutexInit(v, [h \in Harts |-> FALSE], 0)
    /\ ClintInit

Next ==
    \/ \E h \in Harts : CallLock(h)
    \/ \E h \in Harts : lock(h)
    \/ \E h \in Harts : deref(h)
    \/ \E h \in Harts : deref_mut(h)
    \/ \E h \in Harts : \E kind \in ExitKinds : ScopeEnd(h, kind)

Spec == Init /\ [][Next]_vars

\* harts under fair scheduling, some of them locking and releasing for ever
HartStep(h) ==
    \/ CallLock(h)
    \/ lock(h)
    \/ deref(h)
    \/ deref_mut(h)
    \/ \E kind \in ExitKinds : ScopeEnd(h, kind)

InitFair ==
    /\ \E e \in [Harts -> BOOLEAN] : MutexInit(0, e, MaxLocks - MaxFairLocks)
    /\ ClintInit

SpecFair == InitFair /\ [][Next]_vars /\ \A h \in Harts : WF_vars(HartStep(h))

\* harts that may call lock() while holding the guard, directly or from an
\* interrupt handler
InitNested ==
    /\ MutexInit(0, [h \in Harts |-> FALSE], MaxLocks - MaxFairLocks)
    /\ ClintInit

NextNested ==
    \/ \E h \in Harts : CallLock(h)
    \/ \E h \in Harts : lock(h)
    \/ \E h \in Harts : deref(h)
    \/ \E h \in Harts : deref_mut(h)
    \/ \E h \in Harts : \E kind \in ExitKinds : ScopeEnd(h, kind)
    \/ \E h \in Harts : ReLock(h)
    \/ \E h \in Harts : Interrupt(h)
    \/ \E h \in Harts : NestedLock(h)
    \/ \E h \in Harts : NestedReturn(h)

SpecNested == InitNested /\ [][NextNested]_vars

\* the timer arming routine called by the harts while the counter runs
InitClint ==
    /\ MutexInit(0, [h \in Harts |-> FALSE], 0)
    /\ ClintInit

NextClint ==
    \/ \E h \in Harts : \E interval \in 1 .. MaxInterval : WriteClint(h, interval)
    \/ Tick

SpecClint == InitClint /\ [][NextClint]_vars

\* ================================================================= claims

Payload == inner[Len(inner)].val
Holders == {h \in Harts : guard[h]}
AllDone == locks = MaxLocks /\ \A h \in Harts : pc[h] = "idle"

\* the step in which hart h's guard goes out of scope
DropStep(h) == pc[h] \in InCS /\ pc'[h] \notin InCS
\* the step in which hart h reads or writes the payload
AccessStep(h) ==
    \/ pc[h] = "held" /\ pc'[h] = "read"
    \/ pc[h] = "read" /\ pc'[h] = "wrote"

\* C1: mutual exclusion: in every reachable state at most one hart holds a
\* live MutexGuard, i.e. at most one hart is between its successful swap in
\* lock() and the store(0) of its guard's drop.
C1_MutualExclusion ==
    /\ Cardinality(Holders) <= 1
    /\ Cardinality({h \in Harts : pc[h] \in InCS}) <= 1

\* a hart holds the guard while another one has spun in lock()
C1_Witness ==
    \E h \in Harts : \E g \in Harts \ {h} :
        guard[h] /\ pc[h] \in InCS /\ pc[g] = "lock" /\ spun[g]

\* C2: no lost update: once no guard is alive the payload is the value given
\* to Mutex::new plus the number of increments made through the guards; N
\* harts incrementing once each leave a payload that started at 0 at N.
C2_NoLostUpdate ==
    (Holders = {}) => Payload = inner[1].val + SumOver(incs, Harts)

\* every hart has incremented a fresh Mutex(0) exactly once and has dropped
\* its guard
C2_Witness ==
    /\ Holders = {}
    /\ \A h \in Harts : pc[h] = "idle"
    /\ inner[1].val = 0
    /\ \A h \in Harts : incs[h] = 1
    /\ Payload = NumHarts

\* C3: release on every exit: whichever way the guard's scope ends (normal,
\* early return, failure) that step drops the live guard and leaves the lock
\* state 0, and no state has the lock state 1 with no guard alive or a guard
\* alive outside a critical section.
C3_ReleaseOnEveryExit ==
    /\ [](/\ (lock_state = 1 => Holders /= {})
          /\ \A h \in Harts : guard[h] => pc[h] \in InCS)
    /\ [][\A h \in Harts :
            DropStep(h) => (guard[h] /\ ~guard'[h] /\ lock_state' = 0)]_vars

\* a guard's scope was left by a failure path after the payload was written
\* by another hart, and the lock is free with no guard alive
C3_Witness ==
    /\ lock_state = 0
    /\ Holders = {}
    /\ last_exit.kind = "fail"
    /\ inner[Len(inner)].hart \notin {NoHart, last_exit.hart}

\* C4: write_clint(hartid, base, interval) leaves in the hart's
\* timer-compare register C + interval, C being the value of the counter at
\* base + 0xBFF8 at the time of the call.
C4_ArmedValueIsCountPlusInterval ==
    \A h \in Harts :
        last_call[h] /= NoCall =>
            mem[CLINT_MTIMECMP(CLINT_BASE, h)] = last_call[h].count + last_call[h].interval

\* C5: every call of write_clint makes exactly one memory-mapped write, to
\* base + 0x4000 + 8*hartid; no other register changes, and a hart's slot
\* holds what that hart's own last call wrote, however the calls of the
\* other harts are interleaved with it.
C5_ArmTargetAndIndependence ==
    /\ Len(mmio_log) = calls
    /\ \A i \in 1 .. Len(mmio_log) :
          mmio_log[i].addr = CLINT_BASE + 16384 + 8 * mmio_log[i].hart
    /\ \A h \in Harts :
          mem[CLINT_BASE + 16384 + 8 * h] =
              IF last_call[h] = NoCall THEN 0 ELSE last_call[h].val
    /\ \A a \in MemAddrs :
          (a /= CLINT_BASE + 49144 /\ \A h \in Harts : a /= CLINT_BASE + 16384 + 8 * h)
              => mem[a] = 0

\* every hart has armed its timer, the last call was not by hart 0
C5_Witness ==
    /\ \A h \in Harts : last_call[h] /= NoCall
    /\ Len(mmio_log) >= NumHarts
    /\ mmio_log[Len(mmio_log)].hart /= 0
    /\ mem[CLINT_BASE + 16384] = last_call[0].val

\* C6: ordering across a hand-over: a hart inside its critical section sees
\* every earlier write to the payload, and the value it read through its
\* guard is the last value written, never an older one.
C6_HandOverOrdering ==
    \A h \in Harts :
        /\ pc[h] \in InCS => view[h] = Len(inner)
        /\ pc[h] = "read" => local[h] = Payload

\* a hart has read, through its guard, the value another hart wrote last
C6_Witness ==
    \E h \in Harts :
        /\ pc[h] = "read"
        /\ inner[Len(inner)].hart \notin {NoHart, h}
        /\ local[h] = Payload

OthersBounded(h) == \A g \in Harts \ {h} : ~endless[g]

\* C7 as claimed: under fair scheduling every call of lock() eventually
\* returns a guard, also while other harts lock and release without bound.
C7_EveryLockReturns ==
    \A h \in Harts : (pc[h] = "lock") ~> guard[h]

\* C7 as amended: under fair scheduling a call of lock() eventually returns
\* a guard when the other harts lock and release only finitely often.
C7_LockReturnsWhenOthersBounded ==
    \A h \in Harts : (pc[h] = "lock" /\ OthersBounded(h)) ~> guard[h]

\* a hart got the guard after spinning, the other harts being finite
C7_Witness ==
    \E h \in Harts : guard[h] /\ spun[h] /\ OthersBounded(h) /\ pc[h] = "held"

\* C8: payload access only under the lock: in every step that reads or
\* writes the payload the accessing hart holds the guard, the lock state is
\* 1 and that hart's swap is the one that last changed it from 0 to 1.
C8_AccessOnlyUnderLock ==
    [][\A h \in Harts :
         AccessStep(h) => (guard[h] /\ lock_state = 1 /\ owner = h)]_vars

\* a hart has written the payload while another hart was spinning
C8_Witness ==
    \E h \in Harts : \E g \in Harts \ {h} :
        pc[h] = "wrote" /\ owner = h /\ pc[g] = "lock" /\ spun[g]

\* C9: no spurious unlock: the release store is executed only by the hart
\* that holds the guard, with the lock state 1 and that hart as the holder.
C9_NoSpuriousUnlock ==
    [][\A h \in Harts :
         DropStep(h) => (guard[h] /\ lock_state = 1 /\ owner = h
                         /\ Holders = {h})]_vars

\* a hart has released normally and another hart has taken the lock since
C9_Witness ==
    \E h \in Harts : \E g \in Harts \ {h} :
        last_exit = [hart |-> h, kind |-> "normal"] /\ ~guard[h] /\ guard[g] /\ owner = g

\* C10: the drop of the live guard is the only transition from Locked to
\* Unlocked: every step that takes the lock state from 1 to 0 is the end of
\* the holder's guard; lock(), deref and deref_mut never set it to 0.
C10_OnlyDropUnlocks ==
    [][(lock_state = 1 /\ lock_state' = 0) =>
          \E h \in Harts : DropStep(h) /\ guard[h] /\ ~guard'[h] /\ owner = h]_vars

\* the lock is free again after a release while a hart is still spinning
C10_Witness ==
    \E h \in Harts : \E g \in Harts \ {h} :
        last_exit.hart = h /\ lock_state = 0 /\ pc[g] = "lock" /\ spun[g]

Nesting == {"lock", "spin"}

\* C11: self-deadlock on re-acquire: a hart that calls lock() while it holds
\* the guard finds the lock state 1 at every swap and never leaves that
\* lock(): it stays in the call, keeps its guard and its program does not
\* move on.
C11_SelfDeadlock ==
    /\ [](\A h \in Harts :
            nest[h] = "call" => (lock_state = 1 /\ guard[h] /\ npc[h] \in Nesting))
    /\ [][\A h \in Harts :
            nest[h] = "call" =>
                (nest'[h] = "call" /\ guard'[h] /\ pc'[h] = pc[h] /\ lock_state' = 1)]_vars

\* a hart is inside its second lock() and a swap has returned 1
C11_Witness ==
    \E h \in Harts : nest[h] = "call" /\ npc[h] = "spin" /\ guard[h]

\* C12: interrupt-handler deadlock: lock() and drop leave the hart's
\* interrupt-enable bit as it was, so a hart holding the guard still takes
\* interrupts; a handler on that hart that calls lock() finds the lock state
\* 1 at every swap, never returns, and the guard is never dropped.
C12_InterruptDeadlock ==
    /\ [](\A h \in Harts :
            /\ (guard[h] /\ nest[h] = "none") => mie[h]
            /\ (nest[h] = "irq" /\ guard[h]) => (lock_state = 1 /\ npc[h] \in Nesting))
    /\ [][\A h \in Harts :
            /\ ((pc[h] = "lock" /\ pc'[h] = "held") \/ DropStep(h)) => mie'[h] = mie[h]
            /\ (nest[h] = "irq" /\ guard[h]) =>
                  (nest'[h] = "irq" /\ guard'[h] /\ pc'[h] = pc[h] /\ lock_state' = 1)]_vars

\* a hart holding the guard has taken an interrupt and its handler spins
C12_Witness ==
    \E h \in Harts :
        nest[h] = "irq" /\ guard[h] /\ pc[h] \in InCS /\ npc[h] = "spin" /\ ~mie[h]

\* C13: initial state: Mutex::new(v) leaves the lock state 0 and the payload
\* v; the first guard ever handed out was obtained without a swap returning
\* 1, and it reads v.
C13_InitialState ==
    /\ locks = 0 =>
          (lock_state = 0 /\ inner = <<[val |-> new_arg, hart |-> NoHart]>>)
    /\ \A h \in Harts :
          (guard[h] /\ last_exit.kind = "none") =>
              /\ ~spun[h]
              /\ pc[h] = "held" => Payload = new_arg
              /\ pc[h] = "read" => local[h] = new_arg

\* the first guard of a Mutex::new(v), v not 0, has read v without spinning
C13_Witness ==
    \E h \in Harts :
        /\ pc[h] = "read" /\ last_exit.kind = "none" /\ ~spun[h]
        /\ new_arg = MaxInitValue /\ new_arg /= 0 /\ local[h] = new_arg

\* C14: termination of finite workloads: when no hart's workload is endless
\* and no hart calls lock() while holding the guard, then under weak fairness
\* of every hart all lock / access / drop rounds are eventually finished for
\* good, with the lock state 0 and no guard alive.
C14_FiniteWorkloadsTerminate ==
    <>[](\/ \E h \in Harts : endless[h]
         \/ (AllDone /\ lock_state = 0 /\ Holders = {}))

\* all rounds are done, every hart has written the payload, the lock is free
C14_Witness ==
    /\ \A h \in Harts : ~endless[h] /\ incs[h] >= 1
    /\ AllDone
    /\ lock_state = 0

\* a step in which no hart other than h moves
OnlyHartSteps(h) ==
    \A g \in Harts \ {h} : pc'[g] = pc[g] /\ spun'[g] = spun[g]

\* C15: a failed lock attempt changes nothing: a swap by a hart in lock()
\* that finds the lock state 1 leaves the lock state 1, the payload and the
\* holder's guard as they were, and the hart inside lock().
C15_FailedAttemptChangesNothing ==
    [][\A h \in Harts :
         (pc[h] = "lock" /\ lock_state = 1 /\ OnlyHartSteps(h)) =>
             /\ lock_state' = 1
             /\ inner' = inner
             /\ guard' = guard
             /\ owner' = owner
             /\ pc'[h] = "lock"]_vars

\* a hart's swap has failed while the holder was reading the payload
C15_Witness ==
    \E h \in Harts : \E g \in Harts \ {h} :
        /\ pc[h] = "lock" /\ spun[h] /\ lock_state = 1
        /\ guard[g] /\ pc[g] = "read" /\ local[g] = Payload

\* C16: lock state domain: the lock word is 0 or 1 in every reachable state,
\* whatever the number of harts spinning on it and whichever hart holds it.
C16_LockStateDomain ==
    lock_state \in {0, 1}

\* the lock is held by hart 0, another hart has spun, and the word is 1
C16_Witness ==
    /\ lock_state = 1
    /\ owner = 0 /\ guard[0]
    /\ \E g \in Harts \ {0} : pc[g] = "lock" /\ spun[g]

====
